---- MODULE Spec2Model ----
(***************************************************************************)
(* Model of find_old_large_files.py: the FileScanner class (constructor,   *)
(* concurrent scan, sequential move to the trash directory) and main().    *)
(*                                                                         *)
(* The file system is part of the state: fs maps every path under the      *)
(* scanned root to the file stored there (or NoFile), trash maps a base    *)
(* name to the file stored under that name in the trash directory.         *)
(* A file carries the identity of its content, so that "the same bytes"    *)
(* is observable after a rename.                                           *)
(*                                                                         *)
(* The tqdm progress bars are display-only objects local to scan_files and *)
(* move_files_to_trash; they hold no state that outlives the call and are  *)
(* left out.                                                               *)
(***************************************************************************)
EXTENDS Integers, Sequences, FiniteSets, TLC

\* ------------------------------------------------------------------ bounds
MaxFiles == 2      \* files under the root at start
MaxVanish == 1     \* files another process deletes during a run
MaxScans == 2      \* scan_files calls on one FileScanner

\* ------------------------------------------------------- program constants
MB == 1024 * 1024
SecondsPerDay == 60 * 60 * 24
size_limit == 100 * MB
days_limit == 365
excluded_extensions == { <<".", "d", "o", "c", "x">>, <<".", "x", "l", "s", "x">> }

\* time.time(): one reading for the run (a run is short against a day)
now == days_limit * SecondsPerDay + 1000

\* ---------------------------------------------------------------- universe
Dirs == {"d1", "d2"}
Names == { <<"a", ".", "l", "o", "g">>, <<"b", ".", "d", "o", "c", "x">> }
Paths == [dir : Dirs, name : Names]
NoFile == [size |-> -1, mtime |-> -1, content |-> "none"]
Sizes == {size_limit, size_limit + 1}
MTimes == {now - days_limit * SecondsPerDay, now - days_limit * SecondsPerDay - 1}

VARIABLES
    program,        \* "main": the script's main(); "client": code driving a FileScanner
    pc,             \* position of the driving thread
    error,          \* the uncaught exception that ended the run, or "none"
    fs,             \* Paths -> file or NoFile: the tree under dir_path
    trash_exists,   \* the trash directory exists
    trash0,         \* trash_exists at start (history)
    trash,          \* Names -> file or NoFile: content of the trash directory
    log_configured, \* the root logger already has a handler
    files_to_move,  \* self.files_to_move
    task,           \* Paths -> position of the pool task running process_file
    file_handler,   \* the file_handler argument of the running scan
    scans,          \* number of scan_files calls so far
    vanished,       \* number of files deleted by another process
    logged,         \* records handed to logging
    stdout,         \* records printed
    move_i,         \* index of the for loop of move_files_to_trash
    attempts,       \* os.rename calls made, in order (history)
    result1         \* files_to_move when the first scan completed (history)

vars == << program, pc, error, fs, trash_exists, trash0, trash, log_configured,
           files_to_move, task, file_handler, scans, vanished, logged, stdout,
           move_i, attempts, result1 >>

\* ------------------------------------------------------------ pure helpers
Rec(kind, path, n) == [kind |-> kind, path |-> path, n |-> n]
NoPath == [dir |-> "", name |-> <<>>]

exists(p) == fs[p] # NoFile

\* os.path.basename of os.path.join(foldername, filename)
basename(p) == p.name

\* str.rfind('.') on a name, 0-based, -1 when there is no dot
rfind_dot(name) ==
    LET I == {i \in 1..Len(name) : name[i] = "."}
    IN IF I = {} THEN -1 ELSE (CHOOSE i \in I : \A j \in I : j <= i) - 1

\* pathlib.Path(file_path).suffix: the last dot-section of the final
\* component, empty for a leading or a trailing dot
suffix(p) ==
    LET name == basename(p)
        i == rfind_dot(name)
    IN IF 0 < i /\ i < Len(name) - 1 THEN SubSeq(name, i + 1, Len(name)) ELSE <<>>

getsize(p) == fs[p].size
getmtime(p) == fs[p].mtime

\* file_age_in_days, kept exact by returning the age in seconds: the
\* quotient by 60*60*24 is taken on the other side of the comparison
file_age_in_days(p) == now - getmtime(p)

size_check_ge(p) == getsize(p) >= size_limit
size_check(p) == getsize(p) > size_limit

age_check(p) == file_age_in_days(p) > days_limit * SecondsPerDay

ext_check(p) == ~(suffix(p) \in excluded_extensions)

\* list.append, one indivisible step of the interpreter
list_assign(l, p) == <<p>>
list_append(l, p) == Append(l, p)

\* "{:.2f}" of size / unit, in hundredths
Hundredths(size, unit) ==
    (size \div unit) * 100 + ((size % unit) * 200 + unit) \div (2 * unit)

\* print_file's line: MB below 1024 MB, GB from there on
print_line(p) ==
    LET size == getsize(p)
    IN IF size \div MB < 1024
       THEN Rec("file_MB", p, Hundredths(size, MB))
       ELSE Rec("file_GB", p, Hundredths(size \div 1024, MB))

Log(r) == logged' = logged \cup {r}

\* ---------------------------------------------------------------- initial
Init ==
    /\ program \in {"main", "client"}
    /\ pc = "Idle"
    /\ error = "none"
    /\ \E S \in SUBSET Paths :
          /\ Cardinality(S) <= MaxFiles
          /\ \E sz \in [S -> Sizes], mt \in [S -> MTimes] :
                fs = [p \in Paths |->
                        IF p \in S
                        THEN [size |-> sz[p], mtime |-> mt[p], content |-> p]
                        ELSE NoFile]
    /\ trash_exists \in BOOLEAN
    /\ trash0 = trash_exists
    /\ trash = [n \in Names |-> NoFile]
    /\ log_configured \in BOOLEAN
    /\ files_to_move = <<>>
    /\ task = [p \in Paths |-> "none"]
    /\ file_handler = "None"
    /\ scans = 0
    /\ vanished = 0
    /\ logged = {}
    /\ stdout = {}
    /\ move_i = 0
    /\ attempts = <<>>
    /\ result1 = <<>>

\* ------------------------------------------------------------ FileScanner
\* __init__: logging.basicConfig opens <trash_dir>/file_scanner.log unless
\* the root logger already has a handler; open() of a file in a directory
\* that does not exist raises FileNotFoundError out of the constructor.
Construct ==
    /\ pc = "Idle"
    /\ IF ~log_configured /\ ~trash_exists
       THEN /\ pc' = "Crashed"
            /\ error' = "FileNotFoundError"
            /\ UNCHANGED << files_to_move, log_configured, logged >>
       ELSE /\ pc' = "Ready"
            /\ files_to_move' = <<>>
            /\ log_configured' = TRUE
            /\ Log(Rec("Initialized FileScanner", NoPath, 0))
            /\ UNCHANGED error
    /\ UNCHANGED << program, fs, trash_exists, trash0, trash, task, file_handler,
                    scans, vanished, stdout, move_i, attempts, result1 >>

\* os.walk(dir_path): the files present when the tree is listed
walk == {p \in Paths : exists(p)}

\* scan_files up to the last submit: count_files, then one pool task per
\* enumerated file. main passes print_file; a client passes it or nothing.
ScanBegin ==
    /\ \/ program = "main" /\ pc = "Ready"
       \/ program = "client" /\ pc \in {"Ready", "Scanned"}
    /\ scans < MaxScans
    /\ scans' = scans + 1
    /\ \E h \in {"None", "print_file"} :
          /\ program = "main" => h = "print_file"
          /\ file_handler' = h
    /\ Log(Rec("Total files in dir_path", NoPath, Cardinality(walk)))
    /\ task' = [p \in Paths |-> IF p \in walk THEN "size" ELSE "none"]
    /\ pc' = "Scanning"
    /\ UNCHANGED << program, error, fs, trash_exists, trash0, trash,
                    log_configured, files_to_move, vanished, stdout, move_i,
                    attempts, result1 >>

TaskUnchanged ==
    UNCHANGED << program, pc, error, fs, trash_exists, trash0, trash,
                 log_configured, file_handler, scans, vanished, move_i,
                 attempts, result1 >>

\* process_file, first operand of the condition: os.path.getsize
CheckSize(p) ==
    /\ pc = "Scanning" /\ task[p] = "size"
    /\ IF ~exists(p)
       THEN /\ Log(Rec("File not found", p, 0))
            /\ task' = [task EXCEPT ![p] = "done"]
       ELSE /\ task' = [task EXCEPT ![p] = IF size_check(p) THEN "age" ELSE "done"]
            /\ UNCHANGED logged
    /\ UNCHANGED << files_to_move, stdout >>
    /\ TaskUnchanged

\* process_file, second operand: os.path.getmtime in file_age_in_days
CheckAge(p) ==
    /\ pc = "Scanning" /\ task[p] = "age"
    /\ IF ~exists(p)
       THEN /\ Log(Rec("File not found", p, 0))
            /\ task' = [task EXCEPT ![p] = "done"]
       ELSE /\ task' = [task EXCEPT ![p] = IF age_check(p) THEN "ext" ELSE "done"]
            /\ UNCHANGED logged
    /\ UNCHANGED << files_to_move, stdout >>
    /\ TaskUnchanged

\* process_file, third operand (no file access) and the append
Collect(p) ==
    /\ pc = "Scanning" /\ task[p] = "ext"
    /\ IF ext_check(p)
       THEN /\ files_to_move' = list_append(files_to_move, p)
            /\ Log(Rec("Added file to move", p, 0))
            /\ task' = [task EXCEPT ![p] =
                          IF file_handler = "None" THEN "done" ELSE "report"]
       ELSE /\ task' = [task EXCEPT ![p] = "done"]
            /\ UNCHANGED << files_to_move, logged >>
    /\ UNCHANGED stdout
    /\ TaskUnchanged

\* file_handler(file_path), i.e. print_file: a second os.path.getsize, still
\* inside the try of process_file
Report(p) ==
    /\ pc = "Scanning" /\ task[p] = "report"
    /\ IF ~exists(p)
       THEN /\ Log(Rec("File not found", p, 0))
            /\ UNCHANGED stdout
       ELSE /\ stdout' = stdout \cup {print_line(p)}
            /\ Log(print_line(p))
    /\ task' = [task EXCEPT ![p] = "done"]
    /\ UNCHANGED files_to_move
    /\ TaskUnchanged

\* concurrent.futures.wait(futures) and the exit of the two with blocks
ScanEnd ==
    /\ pc = "Scanning"
    /\ \A p \in Paths : task[p] \in {"none", "done"}
    /\ pc' = "Scanned"
    /\ task' = [p \in Paths |-> "none"]
    /\ result1' = IF scans = 1 THEN files_to_move ELSE result1
    /\ UNCHANGED << program, error, fs, trash_exists, trash0, trash,
                    log_configured, files_to_move, file_handler, scans,
                    vanished, logged, stdout, move_i, attempts >>

\* Another process deletes a file between its enumeration and the move.
Vanish(p) ==
    /\ pc \in {"Scanning", "Scanned"}
    /\ exists(p)
    /\ vanished < MaxVanish
    /\ vanished' = vanished + 1
    /\ fs' = [fs EXCEPT ![p] = NoFile]
    /\ UNCHANGED << program, pc, error, trash_exists, trash0, trash,
                    log_configured, files_to_move, task, file_handler, scans,
                    logged, stdout, move_i, attempts, result1 >>

\* move_files_to_trash up to the loop: os.makedirs(trash_dir, exist_ok=True)
MoveBegin ==
    /\ program = "client"
    /\ pc \in {"Ready", "Scanned"}
    /\ trash_exists' = TRUE
    /\ move_i' = 1
    /\ pc' = "Moving"
    /\ UNCHANGED << program, error, fs, trash0, trash, log_configured,
                    files_to_move, task, file_handler, scans, vanished, logged,
                    stdout, attempts, result1 >>

\* index of the loop after the rename of entry i of n
after_attempt_abort(i, ok, n) == IF ok THEN i + 1 ELSE n + 1
after_attempt(i, ok, n) == i + 1

\* One iteration of the loop. os.rename fails when the source is gone and
\* may fail for any other OSError; when it succeeds the file replaces
\* whatever the trash holds under the same base name (POSIX rename).
MoveStep ==
    /\ pc = "Moving"
    /\ move_i <= Len(files_to_move)
    /\ LET src == files_to_move[move_i] IN
       \E oserror \in BOOLEAN :
          LET ok == exists(src) /\ ~oserror IN
          /\ IF ok
             THEN /\ fs' = [fs EXCEPT ![src] = NoFile]
                  /\ trash' = [trash EXCEPT ![basename(src)] = fs[src]]
                  /\ Log(Rec("Moved file to trash", src, 0))
             ELSE /\ Log(Rec("Error moving file", src, 0))
                  /\ UNCHANGED << fs, trash >>
          /\ attempts' = Append(attempts, [path |-> src, ok |-> ok])
          /\ move_i' = after_attempt(move_i, ok, Len(files_to_move))
    /\ UNCHANGED << program, pc, error, trash_exists, trash0, log_configured,
                    files_to_move, task, file_handler, scans, vanished, stdout,
                    result1 >>

\* the end of move_files_to_trash
MoveEnd ==
    /\ pc = "Moving"
    /\ move_i > Len(files_to_move)
    /\ Log(Rec("Completed moving files to trash", NoPath, 0))
    /\ pc' = "Done"
    /\ UNCHANGED << program, error, fs, trash_exists, trash0, trash,
                    log_configured, files_to_move, task, file_handler, scans,
                    vanished, stdout, move_i, attempts, result1 >>

\* ------------------------------------------------------------------- main
\* The statement after the scan: scanner.total_size_in_gb(). FileScanner
\* defines no such attribute, the call raises AttributeError and main ends
\* there: the summary line, the prompt and the move are never reached.
MainSummary ==
    /\ program = "main"
    /\ pc = "Scanned"
    /\ pc' = "Crashed"
    /\ error' = "AttributeError"
    /\ UNCHANGED << program, fs, trash_exists, trash0, trash, log_configured,
                    files_to_move, task, file_handler, scans, vanished, logged,
                    stdout, move_i, attempts, result1 >>

Next ==
    \/ Construct
    \/ ScanBegin
    \/ \E p \in Paths : CheckSize(p)
    \/ \E p \in Paths : CheckAge(p)
    \/ \E p \in Paths : Collect(p)
    \/ \E p \in Paths : Report(p)
    \/ ScanEnd
    \/ \E p \in Paths : Vanish(p)
    \/ MoveBegin
    \/ MoveStep
    \/ MoveEnd
    \/ MainSummary

Spec == Init /\ [][Next]_vars

\* ----------------------------------------------------------------- claims
Count(p, l) == Cardinality({i \in 1..Len(l) : l[i] = p})
InList(p) == Count(p, files_to_move) > 0

TooSmall(p) == fs[p].size <= size_limit
TooYoung(p) == now - fs[p].mtime <= days_limit * SecondsPerDay
Excluded(p) == suffix(p) \in excluded_extensions
AllThree(p) == ~TooSmall(p) /\ ~TooYoung(p) /\ ~Excluded(p)

\* C1: a file under the root whose size is <= size_limit, or whose age is
\* <= days_limit, or whose extension is excluded, is never in files_to_move
\* (each condition alone keeps it out, the boundary values included).
C1_NonQualifyingNeverCollected ==
    \A p \in Paths :
        exists(p) /\ (TooSmall(p) \/ TooYoung(p) \/ Excluded(p)) => ~InList(p)

\* a completed scan that collected a file and left out a file sitting
\* exactly on a boundary or carrying an excluded extension
C1_Witness ==
    /\ pc = "Scanned"
    /\ Len(files_to_move) > 0
    /\ \E p \in Paths :
          /\ exists(p) /\ ~InList(p)
          /\ \/ fs[p].size = size_limit /\ ~TooYoung(p) /\ ~Excluded(p)
             \/ now - fs[p].mtime = days_limit * SecondsPerDay
                  /\ ~TooSmall(p) /\ ~Excluded(p)
             \/ Excluded(p) /\ ~TooSmall(p) /\ ~TooYoung(p)

\* C2: when the scan of a fresh FileScanner has completed, every file under
\* the root that satisfies all three predicates is in files_to_move exactly
\* once, whatever the interleaving of the concurrent process_file calls.
C2_QualifyingCollectedOnce ==
    (pc = "Scanned" /\ scans = 1) =>
        \A p \in Paths : exists(p) /\ AllThree(p) => Count(p, files_to_move) = 1

\* two qualifying files collected by concurrent tasks in one scan
C2_Witness ==
    /\ pc = "Scanned" /\ scans = 1
    /\ Len(files_to_move) = 2
    /\ files_to_move[1] # files_to_move[2]
    /\ \A i \in 1..2 : exists(files_to_move[i]) /\ AllThree(files_to_move[i])

Moved(i) == attempts[i].ok
Original(i) == attempts[i].path

\* C3: after move_files_to_trash, every file whose move succeeded is absent
\* from its original location and present in the trash under its base name
\* with the content it had, also when two collected files share a base name.
C3_MovedFilesKeepContent ==
    pc = "Done" =>
        \A i \in 1..Len(attempts) :
            Moved(i) =>
                /\ ~exists(Original(i))
                /\ trash[basename(Original(i))].content = Original(i)

C5_EveryEntryAttemptedInOrder ==
    /\ Len(attempts) <= Len(files_to_move)
    /\ \A i \in 1..Len(attempts) :
          /\ Original(i) = files_to_move[i]
          /\ ~Moved(i) => Rec("Error moving file", Original(i), 0) \in logged
    /\ pc = "Moving" => Len(attempts) = move_i - 1
    /\ pc = "Done" => Len(attempts) = Len(files_to_move)

\* a completed move phase whose first rename failed and whose second succeeded
C5_Witness ==
    /\ pc = "Done"
    /\ Len(attempts) >= 2
    /\ ~Moved(1)
    /\ Moved(2)

\* C6: after move_files_to_trash, every file whose move failed is still at
\* its original location and the run has reported, at the end, a summary
\* naming the failures.
C6_FailuresKeptAndSummarised ==
    (pc = "Done" /\ \E i \in 1..Len(attempts) : ~Moved(i)) =>
        /\ \A i \in 1..Len(attempts) :
              ~Moved(i) /\ (\A j \in 1..Len(attempts) : Original(j) = Original(i) => ~Moved(j))
                  => exists(Original(i))
        /\ \E r \in logged \cup stdout : r.kind = "Move summary"

\* C7: when the trash directory does not exist beforehand, a run that
\* constructs the FileScanner, scans and moves creates the directory, and
\* every collected file that is moved ends up inside it.
C7_TrashCreated ==
    (program = "client" /\ ~trash0 /\ pc \in {"Done", "Crashed"}) =>
        /\ trash_exists
        /\ \A i \in 1..Len(attempts) :
              Moved(i) => trash[basename(Original(i))] # NoFile

RECURSIVE SumSizes(_, _)
SumSizes(l, f) == IF l = <<>> THEN 0 ELSE f[Head(l)].size + SumSizes(Tail(l), f)

\* C8: after the scan, main prints a summary line whose total is the sum in
\* bytes of the sizes of the files in files_to_move, and then reaches the
\* confirmation prompt.
C8_SummaryPrinted ==
    (program = "main" /\ scans >= 1 /\ pc \notin {"Scanning", "Scanned"}) =>
        /\ \E r \in stdout :
              r.kind = "Total size to be moved to trash"
                 /\ r.n = SumSizes(files_to_move, fs)
        /\ pc \in {"AwaitingConfirmation", "Moving", "Done"}

\* C9: a second scan_files on an unchanged tree, with no move in between,
\* leaves the same result as the first: every path is in the result as
\* often as it was after the first scan.
C9_RescanSameResult ==
    (pc = "Scanned" /\ scans = 2 /\ vanished = 0) =>
        \A p \in Paths : Count(p, files_to_move) = Count(p, result1)

\* C10: a file that is gone when process_file stats it (size check, age
\* check or reporting callback) is logged and skipped: it is not left in
\* files_to_move.
C10_VanishedFileSkipped ==
    (pc = "Scanned" /\ scans = 1) =>
        \A p \in Paths :
            Rec("File not found", p, 0) \in logged => ~InList(p)

====
